---- MODULE Spec2Model ----
(***************************************************************************)
(* Model of pb.py, the personal-belongings manager: the in-memory catalog  *)
(* (a Python dict in insertion order), the persisted file pb.yaml, and one *)
(* action per branch of the main menu loop.                                *)
(*                                                                         *)
(* Strings are sequences of one-character strings.  A Python dict is a     *)
(* sequence of <<key, value>> pairs in insertion order.  A value stored at *)
(* the top level of the catalog is tagged with its Python type:            *)
(*   [kind |-> "dict", v |-> pairs]   or   [kind |-> "list", v |-> codes]. *)
(***************************************************************************)
EXTENDS Naturals, Sequences, FiniteSets, TLC

VARIABLES data, file, pc, entered, outcome

vars == <<data, file, pc, entered, outcome>>

(* bound on the total number of item codes held by the catalog *)
MaxItems == 1

----------------------------------------------------------------------------
(* Strings *)

DASH == "-"

CATEGORIES == <<"c", "a", "t", "e", "g", "o", "r", "i", "e", "s">>

NoneVal == <<"None">>

(* str.lower(), on the letters of the model's alphabet *)
LowerChar(c) ==
  CASE c = "B" -> "b"
    [] c = "D" -> "d"
    [] c = "X" -> "x"
    [] c = "Y" -> "y"
    [] OTHER -> c

Lower(s) == [i \in 1..Len(s) |-> LowerChar(s[i])]

RECURSIVE LStrip(_)
LStrip(s) == IF s # <<>> /\ Head(s) = " " THEN LStrip(Tail(s)) ELSE s

RECURSIVE RStrip(_)
RStrip(s) ==
  IF s # <<>> /\ s[Len(s)] = " " THEN RStrip(SubSeq(s, 1, Len(s) - 1)) ELSE s

(* str.strip() *)
Strip(s) == RStrip(LStrip(s))

(* position of the first sep in s, 0 if there is none *)
RECURSIVE Find(_, _, _)
Find(s, sep, i) ==
  IF i > Len(s) THEN 0
  ELSE IF s[i] = sep THEN i
  ELSE Find(s, sep, i + 1)

(* str.split(sep) *)
RECURSIVE Split(_, _)
Split(s, sep) ==
  LET p == Find(s, sep, 1) IN
  IF p = 0 THEN <<s>>
  ELSE <<SubSeq(s, 1, p - 1)>> \o Split(SubSeq(s, p + 1, Len(s)), sep)

(* str.split(sep, 1) *)
Split1(s, sep) ==
  LET p == Find(s, sep, 1) IN
  IF p = 0 THEN <<s>>
  ELSE <<SubSeq(s, 1, p - 1), SubSeq(s, p + 1, Len(s))>>

(* sep.join(parts) *)
RECURSIVE Join(_, _)
Join(parts, sep) ==
  IF parts = <<>> THEN <<>>
  ELSE IF Len(parts) = 1 THEN parts[1]
  ELSE parts[1] \o <<sep>> \o Join(Tail(parts), sep)

DigitChars == {"0", "1", "2", "3", "4", "5", "6", "7", "8", "9"}

(* the character U+00B2, superscript two: a digit for str.isdigit(), *)
(* not a decimal for int()                                            *)
SUP2 == "sup2"

(* str.isdigit() *)
IsDigit(s) == s # <<>> /\ \A i \in 1..Len(s) : s[i] \in DigitChars \cup {SUP2}

(* int() accepts the string *)
IntOk(s) == s # <<>> /\ \A i \in 1..Len(s) : s[i] \in DigitChars

DigitVal(c) ==
  CASE c = "0" -> 0 [] c = "1" -> 1 [] c = "2" -> 2 [] c = "3" -> 3
    [] c = "4" -> 4 [] c = "5" -> 5 [] c = "6" -> 6 [] c = "7" -> 7
    [] c = "8" -> 8 [] OTHER -> 9

(* int(s) of a decimal string *)
RECURSIVE Int(_)
Int(s) ==
  IF s = <<>> THEN 0
  ELSE 10 * Int(SubSeq(s, 1, Len(s) - 1)) + DigitVal(s[Len(s)])

----------------------------------------------------------------------------
(* Python dict, in insertion order *)

RECURSIVE Index(_, _, _)
Index(d, k, i) ==
  IF i > Len(d) THEN 0
  ELSE IF d[i][1] = k THEN i
  ELSE Index(d, k, i + 1)

(* k in d *)
Has(d, k) == Index(d, k, 1) # 0

(* d[k], for k in d *)
Get(d, k) == d[Index(d, k, 1)][2]

(* d[k] = v : an existing key keeps its position *)
Put(d, k, v) ==
  IF Has(d, k) THEN [d EXCEPT ![Index(d, k, 1)] = <<k, v>>]
  ELSE Append(d, <<k, v>>)

(* d.pop(k), for k in d: the dict that remains *)
Pop(d, k) ==
  LET p == Index(d, k, 1) IN SubSeq(d, 1, p - 1) \o SubSeq(d, p + 1, Len(d))

Keys(d) == {d[i][1] : i \in 1..Len(d)}

DictV(m) == [kind |-> "dict", v |-> m]

ListV(l) == [kind |-> "list", v |-> l]

(* list.pop(idx), idx 0-based: the list that remains *)
ListPop(l, idx) == SubSeq(l, 1, idx) \o SubSeq(l, idx + 2, Len(l))

----------------------------------------------------------------------------
(* Results of a menu function: the catalog it leaves and how it ended:      *)
(*   "ok"     it printed its success message                                *)
(*   "warn"   it printed a warning or rejection and returned                *)
(*   "cancel" it returned silently on an empty input                        *)
(*   "crash"  an exception left the function                                *)

Ok(d) == [data |-> d, res |-> "ok"]

Warn(d) == [data |-> d, res |-> "warn"]

Cancel(d) == [data |-> d, res |-> "cancel"]

Crash(d) == [data |-> d, res |-> "crash"]

(* the catalog holds the categories mapping as a dict *)
HasCategories(d) == Has(d, CATEGORIES) /\ Get(d, CATEGORIES).kind = "dict"

(* data["categories"], when it is a dict *)
Categories(d) == Get(d, CATEGORIES).v

(* choose_category: KeyError when data has no "categories", AttributeError *)
(* on .items() when it is not a dict; else the key typed, or None          *)
choose_category(d, inp) ==
  IF ~HasCategories(d) THEN [crash |-> TRUE, cat |-> NoneVal]
  ELSE LET cat == Lower(Strip(inp)) IN
       [crash |-> FALSE,
        cat |-> IF Has(Categories(d), cat) THEN cat ELSE NoneVal]

(* "not cat" for the result of choose_category *)
Falsy(c) == c = NoneVal \/ c = <<>>

add_item(d, in) ==
  LET c == choose_category(d, in.cat) IN
  IF c.crash THEN Crash(d)
  ELSE IF Falsy(c.cat) THEN Warn(d)
  ELSE
    LET cat == c.cat
        item_name == Lower(Strip(in.name))
    IN
    IF item_name = <<>> THEN Warn(d)
    ELSE
      LET details == Lower(Strip(in.details))
          season == IF Lower(Strip(in.season)) = <<>> THEN <<"n">>
                    ELSE Lower(Strip(in.season))
          index == Lower(Strip(in.index))
          parts == <<cat \o <<DASH>> \o item_name>>
                   \o (IF details # <<>> THEN <<details>> ELSE <<>>)
                   \o <<season>>
                   \o (IF index # <<>> THEN <<index>> ELSE <<>>)
          code == Join(parts, DASH)
          category_name == Get(Categories(d), cat)
          d1 == IF ~Has(d, category_name)
                THEN Put(d, category_name, ListV(<<>>)) ELSE d
      IN
      (* dict has no append *)
      IF Get(d1, category_name).kind # "list" THEN Crash(d1)
      ELSE Ok(Put(d1, category_name,
                  ListV(Append(Get(d1, category_name).v, code))))

(* the rewrite of one code on a key change, lines 254-261 *)
RekeyCode(code, new_key) ==
  LET parts == Split1(code, DASH) IN
  IF Len(parts) = 1 THEN new_key ELSE new_key \o <<DASH>> \o parts[2]

(* iterating a list yields its elements, iterating a dict its keys *)
Iter(val) ==
  IF val.kind = "list" THEN val.v ELSE [i \in 1..Len(val.v) |-> val.v[i][1]]

(* a variant of categories_menu_add that stores the mapping before it *)
(* checks that key and name were given                                 *)
categories_menu_add_unchecked(d, key, name) ==
  IF ~HasCategories(d) THEN Crash(d)
  ELSE
    LET d1 == Put(d, CATEGORIES, DictV(Put(Categories(d), key, name))) IN
    IF key # <<>> /\ name # <<>>
    THEN Ok(IF ~Has(d1, name) THEN Put(d1, name, ListV(<<>>)) ELSE d1)
    ELSE Warn(d1)

(* choice "1" of categories_menu, after its two prompts: the assignment  *)
(* raises KeyError when data has no "categories", TypeError when it is a *)
(* list                                                                  *)
categories_menu_add(d, key, name) ==
  IF key # <<>> /\ name # <<>> THEN
    IF ~HasCategories(d) THEN Crash(d)
    ELSE
      LET d1 == Put(d, CATEGORIES, DictV(Put(Categories(d), key, name))) IN
      Ok(IF ~Has(d1, name) THEN Put(d1, name, ListV(<<>>)) ELSE d1)
  ELSE Warn(d)

categories_menu(d, in) ==
  LET choice == Strip(in.choice) IN
  IF choice = <<>> THEN Cancel(d)
  ELSE IF choice = <<"1">> THEN
    LET key == Lower(Strip(in.key))
        name == Strip(in.name)
    IN
    categories_menu_add(d, key, name)
  ELSE IF choice = <<"2">> THEN
    LET c == choose_category(d, in.cat) IN
    IF c.crash THEN Crash(d)
    ELSE IF Falsy(c.cat) THEN Warn(d)
    ELSE
      LET name == Get(Categories(d), c.cat)
          d1 == Put(d, CATEGORIES, DictV(Pop(Categories(d), c.cat)))
      IN Ok(IF Has(d1, name) THEN Pop(d1, name) ELSE d1)
  ELSE IF choice = <<"3">> THEN
    LET c == choose_category(d, in.cat) IN
    IF c.crash THEN Crash(d)
    ELSE IF Falsy(c.cat) THEN Warn(d)
    ELSE
      LET old_key == c.cat
          old_name == Get(Categories(d), old_key)
          new_key == IF Lower(Strip(in.new_key)) = <<>> THEN old_key
                     ELSE Lower(Strip(in.new_key))
          new_name == IF Strip(in.new_name) = <<>> THEN old_name
                      ELSE Strip(in.new_name)
      IN
      IF new_key # old_key /\ Has(Categories(d), new_key) THEN Warn(d)
      ELSE IF new_name # old_name /\ Has(d, new_name) THEN Warn(d)
      ELSE
        LET (* lines 236-241 *)
            d1 == IF new_name # old_name
                  THEN IF Has(d, old_name)
                       THEN Put(Pop(d, old_name), new_name, Get(d, old_name))
                       ELSE Put(d, new_name, ListV(<<>>))
                  ELSE d
        IN
        (* lines 244-247: data["categories"] has gone with old_name *)
        IF (new_key # old_key \/ new_name # old_name) /\ ~Has(d1, CATEGORIES)
        THEN Crash(d1)
        ELSE
          LET d2 == IF new_key # old_key \/ new_name # old_name
                    THEN Put(d1, CATEGORIES,
                             DictV(Put(Pop(Categories(d1), old_key),
                                       new_key, new_name)))
                    ELSE d1
              (* lines 250-262 *)
              items == IF Has(d2, new_name) THEN Iter(Get(d2, new_name))
                       ELSE <<>>
              updated == [i \in 1..Len(items) |-> RekeyCode(items[i], new_key)]
          IN
          Ok(IF new_key # old_key THEN Put(d2, new_name, ListV(updated))
             ELSE d2)
  ELSE Warn(d)

manage_items(d, in) ==
  LET c == choose_category(d, in.cat) IN
  IF c.crash THEN Crash(d)
  ELSE IF Falsy(c.cat) THEN Warn(d)
  ELSE
    LET cat_key == c.cat
        cat_name == Get(Categories(d), cat_key)
        items == IF Has(d, cat_name) THEN Get(d, cat_name) ELSE ListV(<<>>)
        sel == Strip(in.sel)
    IN
    IF items.v = <<>> THEN Warn(d)
    ELSE IF sel = <<>> THEN Cancel(d)
    ELSE IF ~IsDigit(sel) THEN Warn(d)
    (* int() raises ValueError *)
    ELSE IF ~IntOk(sel) THEN Crash(d)
    ELSE IF ~(1 <= Int(sel) /\ Int(sel) <= Len(items.v)) THEN Warn(d)
    (* items[idx] on the categories dict raises KeyError *)
    ELSE IF items.kind # "list" THEN Crash(d)
    ELSE
      LET idx == Int(sel) - 1
          code == items.v[idx + 1]
          action == Strip(in.action)
      IN
      IF action = <<"1">> THEN
        LET new_code == Strip(in.new_code) IN
        IF new_code # <<>>
        THEN Ok(Put(d, cat_name, ListV([items.v EXCEPT ![idx + 1] = new_code])))
        ELSE Warn(d)
      ELSE IF action = <<"2">> THEN
        LET n == choose_category(d, in.new_cat) IN
        IF n.crash THEN Crash(d)
        ELSE IF Falsy(n.cat) THEN Warn(d)
        ELSE
          LET new_cat_key == n.cat
              new_cat_name == Get(Categories(d), new_cat_key)
          IN
          IF new_cat_name = cat_name THEN Warn(d)
          ELSE
            LET parts == Split(code, DASH)
                new_code == Join([parts EXCEPT ![1] = new_cat_key], DASH)
                d1 == Put(d, cat_name, ListV(ListPop(items.v, idx)))
            IN
            IF ~Has(d1, new_cat_name)
            THEN Ok(Put(d1, new_cat_name, ListV(<<new_code>>)))
            (* dict has no append *)
            ELSE IF Get(d1, new_cat_name).kind # "list" THEN Crash(d1)
            ELSE Ok(Put(d1, new_cat_name,
                        ListV(Append(Get(d1, new_cat_name).v, new_code))))
      ELSE IF action = <<"3">> THEN
        Ok(Put(d, cat_name, ListV(ListPop(items.v, idx))))
      ELSE Warn(d)

items_menu(d, in) ==
  LET choice == Strip(in.choice) IN
  IF choice = <<>> THEN Cancel(d)
  ELSE IF choice = <<"1">> THEN add_item(d, in)
  ELSE IF choice = <<"2">> THEN manage_items(d, in)
  ELSE Warn(d)

----------------------------------------------------------------------------
(* The store *)

(* one top-level entry of yaml.dump(data, sort_keys=False), block style: *)
(* the key line, then one line per list item or per mapping entry        *)
DumpEntry(k, val) ==
  IF val.v = <<>>
  THEN <<k \o <<":", " ">>
           \o (IF val.kind = "dict" THEN <<"{", "}">> ELSE <<"[", "]">>)>>
  ELSE <<k \o <<":">>>>
       \o [i \in 1..Len(val.v) |->
             IF val.kind = "list" THEN <<"-", " ">> \o val.v[i]
             ELSE <<" ", " ">> \o val.v[i][1] \o <<":", " ">> \o val.v[i][2]]

(* yaml.dump(data, allow_unicode=True, sort_keys=False): the lines written *)
RECURSIVE Dump(_)
Dump(d) ==
  IF d = <<>> THEN <<>>
  ELSE DumpEntry(d[1][1], d[1][2]) \o Dump(Tail(d))

NoFile == [exists |-> FALSE, text |-> <<>>]

(* save_items: the whole file is overwritten *)
save_items(d) == [exists |-> TRUE, text |-> Dump(d)]

(* load_items when pb.yaml does not exist *)
load_items == <<<<CATEGORIES, DictV(<<>>)>>>>

(* number of list entries held by the catalog *)
RECURSIVE TotalItems(_)
TotalItems(d) ==
  IF d = <<>> THEN 0
  ELSE (IF d[1][2].kind = "list" THEN Len(d[1][2].v) ELSE 0)
       + TotalItems(Tail(d))

----------------------------------------------------------------------------
(* Inputs typed at the prompts *)

E == <<>>

(* category keys typed at "Category key" and "New key" *)
KeyIn == {E, <<"a">>, <<"B", " ">>}

(* answers to choose_category after which the later prompts are reached *)
CatIn == {<<"a">>, <<"B", " ">>}

(* answers to choose_category that choose nothing *)
NoCatIn == {E, <<"c">>}

NameIn == {E, <<"X">>, <<" ", "Y">>, CATEGORIES}

(* item name, details, season, index *)
ItemIn == {<<E, E, E, E>>, <<<<"x">>, E, <<"w">>, E>>,
           <<<<"X", " ">>, <<"D">>, E, <<"i">>>>}

(* item numbers that may select an item, the prompts after them are reached *)
SelIn == {<<"1">>, <<" ", "2">>}

BadSelIn == {E, <<"0">>, <<"x">>, <<SUP2>>}

CodeIn == {E, <<"z">>}

OtherChoiceIn == {E, <<"9">>}

(* every prompt of one main-menu entry; a prompt not reached stays empty *)
NoInput ==
  [choice |-> E, cat |-> E, name |-> E, details |-> E, season |-> E,
   index |-> E, sel |-> E, action |-> E, new_code |-> E, new_cat |-> E,
   key |-> E, new_key |-> E, new_name |-> E]

----------------------------------------------------------------------------
(* The main loop *)

Init ==
  /\ data = load_items
  /\ file = NoFile
  /\ pc = "menu"
  /\ entered = FALSE
  /\ outcome = "start"

(* a variant of MenuEntry that returns to the menu without save_items *)
MenuEntryNoSave(r) ==
  /\ pc = "menu"
  /\ outcome' = r.res
  /\ data' = r.data
  /\ IF r.res = "crash"
     THEN pc' = "crashed" /\ UNCHANGED <<file, entered>>
     ELSE pc' = "menu" /\ file' = file /\ entered' = TRUE

(* choice "1" or "2" of main: the menu function, then save_items unless *)
(* an exception ended the process                                        *)
MenuEntry(r) ==
  /\ pc = "menu"
  /\ outcome' = r.res
  /\ data' = r.data
  /\ IF r.res = "crash"
     THEN pc' = "crashed" /\ UNCHANGED <<file, entered>>
     ELSE pc' = "menu" /\ file' = save_items(r.data) /\ entered' = TRUE

ItemsEntry(in) == MenuEntry(items_menu(data, in))

CategoriesEntry(in) == MenuEntry(categories_menu(data, in))

AddItem ==
  /\ TotalItems(data) < MaxItems
  /\ \E cat \in CatIn \cup NoCatIn, item \in ItemIn :
       ItemsEntry([NoInput EXCEPT !.choice = <<"1">>, !.cat = cat,
                                  !.name = item[1], !.details = item[2],
                                  !.season = item[3], !.index = item[4]])

(* manage_items with no category chosen *)
ManageNoCategory ==
  /\ pc = "menu"
  /\ \E cat \in NoCatIn :
       ItemsEntry([NoInput EXCEPT !.choice = <<"2">>, !.cat = cat])

(* an item number that selects nothing *)
BadSelection ==
  /\ pc = "menu"
  /\ \E cat \in CatIn, sel \in BadSelIn :
       ItemsEntry([NoInput EXCEPT !.choice = <<"2">>, !.cat = cat, !.sel = sel])

EditItem ==
  /\ pc = "menu"
  /\ \E cat \in CatIn, sel \in SelIn, new_code \in CodeIn :
       ItemsEntry([NoInput EXCEPT !.choice = <<"2">>, !.cat = cat, !.sel = sel,
                                  !.action = <<"1">>, !.new_code = new_code])

MoveItem ==
  /\ pc = "menu"
  /\ \E cat \in CatIn, sel \in SelIn, new_cat \in CatIn \cup NoCatIn :
       ItemsEntry([NoInput EXCEPT !.choice = <<"2">>, !.cat = cat, !.sel = sel,
                                  !.action = <<"2">>, !.new_cat = new_cat])

DeleteItem ==
  /\ pc = "menu"
  /\ \E cat \in CatIn, sel \in SelIn :
       ItemsEntry([NoInput EXCEPT !.choice = <<"2">>, !.cat = cat, !.sel = sel,
                                  !.action = <<"3">>])

UnknownAction ==
  /\ pc = "menu"
  /\ \E cat \in CatIn, sel \in SelIn, action \in OtherChoiceIn :
       ItemsEntry([NoInput EXCEPT !.choice = <<"2">>, !.cat = cat, !.sel = sel,
                                  !.action = action])

ItemsOther ==
  /\ pc = "menu"
  /\ \E c \in OtherChoiceIn :
       ItemsEntry([NoInput EXCEPT !.choice = c])

AddCategory ==
  /\ pc = "menu"
  /\ \E key \in KeyIn, name \in NameIn :
       CategoriesEntry([NoInput EXCEPT !.choice = <<"1">>, !.key = key,
                                       !.name = name])

DeleteCategory ==
  /\ pc = "menu"
  /\ \E cat \in CatIn \cup NoCatIn :
       CategoriesEntry([NoInput EXCEPT !.choice = <<"2">>, !.cat = cat])

ModifyNoCategory ==
  /\ pc = "menu"
  /\ \E cat \in NoCatIn :
       CategoriesEntry([NoInput EXCEPT !.choice = <<"3">>, !.cat = cat])

ModifyCategory ==
  /\ pc = "menu"
  /\ \E cat \in CatIn, new_key \in KeyIn, new_name \in NameIn :
       CategoriesEntry([NoInput EXCEPT !.choice = <<"3">>, !.cat = cat,
                                       !.new_key = new_key,
                                       !.new_name = new_name])

CategoriesOther ==
  /\ pc = "menu"
  /\ \E c \in OtherChoiceIn :
       CategoriesEntry([NoInput EXCEPT !.choice = c])

(* choice "3": the catalog is dumped to the terminal only *)
ShowItems ==
  /\ pc = "menu"
  /\ outcome' = "shown"
  /\ UNCHANGED <<data, file, pc, entered>>

(* any other non-empty choice *)
MainInvalid ==
  /\ pc = "menu"
  /\ outcome' = "warn"
  /\ UNCHANGED <<data, file, pc, entered>>

(* choice "4" or an empty choice *)
Exit ==
  /\ pc = "menu"
  /\ outcome' = "exit"
  /\ pc' = "exited"
  /\ UNCHANGED <<data, file, entered>>

Next ==
  \/ AddItem
  \/ ManageNoCategory
  \/ BadSelection
  \/ EditItem
  \/ MoveItem
  \/ DeleteItem
  \/ UnknownAction
  \/ ItemsOther
  \/ AddCategory
  \/ DeleteCategory
  \/ ModifyNoCategory
  \/ ModifyCategory
  \/ CategoriesOther
  \/ ShowItems
  \/ MainInvalid
  \/ Exit

Spec == Init /\ [][Next]_vars

----------------------------------------------------------------------------
(* Vocabulary of the claims *)

(* the categories mapping, empty when the catalog holds none *)
CatMap(d) == IF HasCategories(d) THEN Categories(d) ELSE <<>>

(* the names the categories mapping gives to its keys *)
CatNames(d) == {CatMap(d)[i][2] : i \in 1..Len(CatMap(d))}

(* the item list stored under name n, empty when there is none *)
ItemList(d, n) ==
  IF Has(d, n) /\ Get(d, n).kind = "list" THEN Get(d, n).v ELSE <<>>

(* the first dash-delimited token of a code *)
FirstToken(code) == Split(code, DASH)[1]

(* code with its first dash-delimited token replaced by k *)
WithFirstToken(code, k) == Join([Split(code, DASH) EXCEPT ![1] = k], DASH)

(* every top-level entry other than those named in except is the same *)
SameElsewhere(d1, d2, except) ==
  /\ Keys(d1) \ except = Keys(d2) \ except
  /\ \A n \in Keys(d1) \ except : Get(d1, n) = Get(d2, n)

(* the names two different keys map to *)
SharedNames(d) ==
  {CatMap(d)[i][2] : i \in {j \in 1..Len(CatMap(d)) :
     \E l \in 1..Len(CatMap(d)) : l # j /\ CatMap(d)[l][2] = CatMap(d)[j][2]}}

----------------------------------------------------------------------------
(* C1: after any sequence of menu operations every top-level key other     *)
(* than categories that holds an item list is the name of some entry of    *)
(* the categories mapping.                                                 *)
C1_NoOrphanList ==
  pc # "crashed" =>
    \A i \in 1..Len(data) :
      (data[i][1] # CATEGORIES /\ data[i][2].kind = "list")
        => data[i][1] \in CatNames(data)

(* C2: for every key k mapped to name n and every code in the list under  *)
(* n, the first dash-delimited token of the code is k.                     *)
C2_LeadingTokenIsKey ==
  pc # "crashed" =>
    \A i \in 1..Len(CatMap(data)) :
      LET k == CatMap(data)[i][1]
          l == ItemList(data, CatMap(data)[i][2])
      IN \A j \in 1..Len(l) : FirstToken(l[j]) = k

(* C3: no operation reaches a crashed state. *)
C3_NoCrash == pc # "crashed"

(* the prompts of a Modify entry *)
ModifyIn(cat, new_key, new_name) ==
  [NoInput EXCEPT !.choice = <<"3">>, !.cat = cat, !.new_key = new_key,
                  !.new_name = new_name]

(* what is typed at a prompt that keeps the old value when left empty *)
OrOld(typed, old) == IF typed = <<>> THEN old ELSE typed

(* C4: a modify is rejected, the catalog unchanged, whenever the new key   *)
(* differs from the old key and is already a key, or the new name differs  *)
(* from the old name and is already the name of another category; it is    *)
(* accepted otherwise; no modify makes two keys map to the same name or    *)
(* overwrites another category's mapping or item list.                     *)
C4_CollisionPolicy ==
  [][\A cat \in CatIn, nk \in KeyIn, nn \in NameIn :
       LET old_key == Lower(Strip(cat)) IN
       (HasCategories(data) /\ Has(Categories(data), old_key)
          /\ CategoriesEntry(ModifyIn(cat, nk, nn)))
       =>
       LET old_name == Get(Categories(data), old_key)
           new_key == OrOld(Lower(Strip(nk)), old_key)
           new_name == OrOld(Strip(nn), old_name)
           collision ==
             \/ new_key # old_key /\ Has(Categories(data), new_key)
             \/ new_name # old_name /\ new_name \in CatNames(data)
       IN
       /\ collision => outcome' = "warn" /\ data' = data
       /\ ~collision => outcome' = "ok"
       /\ SharedNames(data') \subseteq SharedNames(data)
       /\ \A i \in 1..Len(Categories(data)) :
            LET k == Categories(data)[i][1] IN
            k # old_key =>
              /\ HasCategories(data') /\ Has(Categories(data'), k)
              /\ Get(Categories(data'), k) = Categories(data)[i][2]
       /\ SameElsewhere(data, data', {CATEGORIES, old_name, new_name})
  ]_vars

(* C5: an operation that ends with a warning leaves the catalog as it was *)
C5_WarningKeepsCatalog == [][outcome' = "warn" => data' = data]_vars

(* a warning was printed while the catalog holds a category and an item *)
C5_Witness ==
  /\ pc = "menu"
  /\ outcome = "warn"
  /\ CatMap(data) # <<>>
  /\ TotalItems(data) > 0

(* C6: an accepted modify with a key change from k to k' replaces the     *)
(* leading token of every code of the category's list by k', the rest     *)
(* preserved, the list keeping its length and order; on a name change the *)
(* list is under the new name and no longer under the old one; categories *)
(* maps k' to the new name and no longer contains k.                      *)
C6_ModifyRekeys ==
  [][\A cat \in CatIn, nk \in KeyIn, nn \in NameIn :
       LET old_key == Lower(Strip(cat))
           new_key == OrOld(Lower(Strip(nk)), old_key)
       IN
       (/\ HasCategories(data) /\ Has(Categories(data), old_key)
        /\ new_key # old_key
        /\ outcome' # "warn"
        /\ CategoriesEntry(ModifyIn(cat, nk, nn)))
       =>
       LET old_name == Get(Categories(data), old_key)
           new_name == OrOld(Strip(nn), old_name)
           before == ItemList(data, old_name)
           after == ItemList(data', new_name)
       IN
       /\ outcome' = "ok"
       /\ HasCategories(data')
       /\ Has(Categories(data'), new_key)
       /\ Get(Categories(data'), new_key) = new_name
       /\ ~Has(Categories(data'), old_key)
       /\ Len(after) = Len(before)
       /\ \A i \in 1..Len(before) : after[i] = WithFirstToken(before[i], new_key)
       /\ new_name # old_name => ~Has(data', old_name)
  ]_vars

(* the prompts of a Move entry *)
MoveIn(cat, sel, new_cat) ==
  [NoInput EXCEPT !.choice = <<"2">>, !.cat = cat, !.sel = sel,
                  !.action = <<"2">>, !.new_cat = new_cat]

(* C7: moving the item at index i of the source category to a different   *)
(* destination category with key b removes exactly that entry from the    *)
(* source list, appends to the destination list the code with its first   *)
(* token replaced by b, and changes no other list.                         *)
C7_MoveItem ==
  [][\A cat \in CatIn, sel \in SelIn, new_cat \in CatIn :
       LET a == Lower(Strip(cat))
           b == Lower(Strip(new_cat))
           i == Int(Strip(sel))
       IN
       (/\ HasCategories(data)
        /\ Has(Categories(data), a) /\ Has(Categories(data), b)
        /\ Get(Categories(data), a) # Get(Categories(data), b)
        /\ i <= Len(ItemList(data, Get(Categories(data), a)))
        /\ ItemsEntry(MoveIn(cat, sel, new_cat)))
       =>
       LET src == Get(Categories(data), a)
           dst == Get(Categories(data), b)
           code == ItemList(data, src)[i]
       IN
       /\ outcome' = "ok"
       /\ ItemList(data', src)
            = SubSeq(ItemList(data, src), 1, i - 1)
              \o SubSeq(ItemList(data, src), i + 1, Len(ItemList(data, src)))
       /\ ItemList(data', dst)
            = Append(ItemList(data, dst), WithFirstToken(code, b))
       /\ SameElsewhere(data, data', {src, dst})
  ]_vars

(* the prompts of a Delete category entry *)
DeleteIn(cat) == [NoInput EXCEPT !.choice = <<"2">>, !.cat = cat]

(* C8: after deleting the category chosen by key k with name n, k is no   *)
(* longer a key of categories and n appears nowhere in the catalog,       *)
(* neither as a list key nor as a value of categories.                    *)
C8_DeleteCategory ==
  [][\A cat \in CatIn :
       LET k == Lower(Strip(cat)) IN
       (/\ HasCategories(data) /\ Has(Categories(data), k)
        /\ CategoriesEntry(DeleteIn(cat)))
       =>
       LET n == Get(Categories(data), k) IN
       /\ outcome' = "ok"
       /\ ~Has(CatMap(data'), k)
       /\ n \notin Keys(data')
       /\ n \notin CatNames(data')
  ]_vars

(* C9: back at the main-menu prompt after at least one Items or           *)
(* Categories entry, the file holds the serialization of the catalog in   *)
(* memory; a Show-items entry changes neither the catalog nor the file.   *)
C9_FileFollowsCatalog ==
  /\ [](pc = "menu" /\ entered => file.exists /\ file.text = Dump(data))
  /\ [][outcome' = "shown" => data' = data /\ file' = file]_vars

(* at the menu, after a save, with a category and an item in the catalog *)
C9_Witness ==
  /\ pc = "menu"
  /\ entered
  /\ file.exists
  /\ CatMap(data) # <<>>
  /\ TotalItems(data) > 0

(* the prompts of an Add item entry *)
AddIn(cat, item) ==
  [NoInput EXCEPT !.choice = <<"1">>, !.cat = cat, !.name = item[1],
                  !.details = item[2], !.season = item[3], !.index = item[4]]

(* the tokens given, without the empty ones *)
RECURSIVE NonEmpty(_)
NonEmpty(tokens) ==
  IF tokens = <<>> THEN <<>>
  ELSE (IF Head(tokens) = <<>> THEN <<>> ELSE <<Head(tokens)>>)
       \o NonEmpty(Tail(tokens))

(* C10: Add Item with an existing key k and a non-empty name m appends to *)
(* the end of the category's list the dash-join of k, m, d if non-empty,  *)
(* s or n, and i if non-empty, also when an equal code is already there,  *)
(* and changes no other list.                                              *)
C10_CodeGenerator ==
  [][\A cat \in CatIn, item \in ItemIn :
       LET k == Lower(Strip(cat))
           m == Lower(Strip(item[1]))
           d == Lower(Strip(item[2]))
           s == OrOld(Lower(Strip(item[3])), <<"n">>)
           i == Lower(Strip(item[4]))
       IN
       (/\ HasCategories(data) /\ Has(Categories(data), k)
        /\ m # <<>>
        /\ ItemsEntry(AddIn(cat, item)))
       =>
       LET n == Get(Categories(data), k) IN
       /\ outcome' = "ok"
       /\ ItemList(data', n)
            = Append(ItemList(data, n), Join(NonEmpty(<<k, m, d, s, i>>), DASH))
       /\ SameElsewhere(data, data', {n})
  ]_vars

====
